---- MODULE Spec2Model ----
(***************************************************************************)
(* Model of internal/pkg/chrome/chrome.go: supervision of a headless       *)
(* Chromium process.  Start launches the browser, IsViable polls its       *)
(* devtools endpoint (warmup + version query, at most maxViabilityTests    *)
(* times), and restart kills the process group and relaunches, calling     *)
(* itself again while the new process is not viable.                       *)
(*                                                                         *)
(* One call of Start is modelled.  pc is the position of the call, depth   *)
(* the number of restart frames on the stack.  Everything the operating    *)
(* system or the browser decides (whether a command can be built or        *)
(* spawned, what the endpoint answers, what kill(2) reports) is an input   *)
(* drawn with \E.  procs, kills, probeLog and launchFail record what the   *)
(* environment saw and answered; the code never reads them.                *)
(***************************************************************************)
EXTENDS Integers, Sequences, FiniteSets, TLC

VARIABLES
    ignoreCertificateErrors, \* parameter of Start, passed on to every restart
    pc,                      \* position of the call
    depth,                   \* number of active restart frames
    proc,                    \* pid of the innermost restart's proc argument (0: none)
    cmdv,                    \* local cmd of the innermost frame
    i, result, err,          \* locals of IsViable
    retErr,                  \* error value travelling up the return path
    procs,                   \* processes spawned so far, in launch order
    kills,                   \* kill(2) calls issued so far, with their outcome
    probeLog,                \* one summary per call of IsViable
    launchFail               \* which launch step failed, if any

vars == <<ignoreCertificateErrors, pc, depth, proc, cmdv, i, result, err,
          retErr, procs, kills, probeLog, launchFail>>

----------------------------------------------------------------------------
(* Bounds of the model *)

\* restart calls itself without a limit; the model follows MaxDepth nested calls.
MaxDepth == 3

\* Helper processes a browser process has forked by the time it is probed.
Helpers == 1

----------------------------------------------------------------------------
(* Errors *)

\* An error is the chain of operation tags put around a cause; nil has neither.
NoErr == [ops |-> <<>>, msg |-> <<>>]

errorsNew(words) == [ops |-> <<>>, msg |-> words]

\* xerror.New(op, err): a new error carrying op in front of err.
xerrorNew(op, e) == [ops |-> <<op>> \o e.ops, msg |-> e.msg]

\* if err := resolver(); err != nil { return xerror.New(op, err) }; return nil
wrapResolver(op, e) == IF e # NoErr THEN xerrorNew(op, e) ELSE NoErr

\* strings.Contains on texts taken as sequences of words.
stringsContains(s, sub) ==
    \E k \in 0..(Len(s) - Len(sub)) :
        \A j \in 1..Len(sub) : s[k + j] = sub[j]

----------------------------------------------------------------------------
(* cmd: the command line *)

Flag(n, v) == [name |-> n, val |-> v]

binary == "chromium"

fixedArgs ==
    << Flag("--no-sandbox", ""),
       Flag("--headless", ""),
       Flag("--disable-dev-shm-usage", ""),
       Flag("--font-render-hinting", "none"),
       Flag("--remote-debugging-port", "9222"),
       Flag("--disable-gpu", ""),
       Flag("--disable-translate", ""),
       Flag("--disable-extensions", ""),
       Flag("--disable-background-networking", ""),
       Flag("--safebrowsing-disable-auto-update", ""),
       Flag("--disable-sync", ""),
       Flag("--disable-default-apps", ""),
       Flag("--hide-scrollbars", ""),
       Flag("--metrics-recording-only", ""),
       Flag("--mute-audio", ""),
       Flag("--no-first-run", "") >>

cmdArgs(ignore) ==
    IF ignore THEN Append(fixedArgs, Flag("--ignore-certificate-errors", ""))
    ELSE fixedArgs

NoCmd == [path |-> "", args |-> <<>>, Setpgid |-> FALSE]

\* The command cmd returns when xexec.Command succeeds.
cmdValue(ignore) == [path |-> binary, args |-> cmdArgs(ignore), Setpgid |-> TRUE]

\* What xexec.Command can report (the binary is not found on the PATH).
CommandErr == errorsNew(<<"executable", "file", "not", "found">>)

\* What cmd.Start can report (the operating system refuses the spawn).
SpawnErr == errorsNew(<<"fork/exec", "permission", "denied">>)

\* cmd: (command, error) for the outcome of xexec.Command.
cmdResult(ignore, commandErr) ==
    IF commandErr # NoErr
    THEN [cmd |-> NoCmd, err |-> xerrorNew("chrome.cmd", commandErr)]
    ELSE [cmd |-> cmdValue(ignore), err |-> NoErr]

childPid(pid, j) == pid * 100 + j

\* The process cmd.Start() creates: with Setpgid it leads a new group of its
\* own id, without it stays in the group of the caller (0 here).  The
\* helpers the browser forks inherit its group.
spawn(c, pid) ==
    LET g == IF c.Setpgid THEN pid ELSE 0 IN
    [pid |-> pid, pgid |-> g, args |-> c.args, state |-> "running",
     children |-> [j \in 1..Helpers |->
                     [pid |-> childPid(pid, j), pgid |-> g,
                      state |-> "running"]]]

\* restart is handed the process started first.
cmdProcess_first(ps) == ps[1].pid

\* cmd.Process of the command just started.
cmdProcess(ps) == ps[Len(ps)].pid

\* restart is called without the caller's flag.
restartArg_false(ignore) == FALSE

\* restart(logger, cmd.Process, ignoreCertificateErrors): the flag handed on.
restartArg(ignore) == ignore

\* The error of a failed launch step is not looked at.
launchReturns_never(e) == FALSE

\* if err != nil { return err } after cmd() and after cmd.Start().
launchReturns(e) == e # NoErr

----------------------------------------------------------------------------
(* kill *)

ESRCH == <<"no", "such", "process">>
EPERM == <<"operation", "not", "permitted">>
Delivered == <<>>

\* What syscall.Kill(-pid, SIGKILL) can report.
Errnos == {Delivered, ESRCH, EPERM}

\* The signal is sent to the process id, not to the negated group id.
killTarget_leader(pid) == pid

\* The group a negative pid argument of kill(2) addresses.
killTarget(pid) == -pid

\* Every answer of kill(2) is taken for a success.
killResolver_swallow(errno) == NoErr

\* "no such process" is reported like any other failure.
killResolver_strict(errno) ==
    IF errno = Delivered THEN NoErr ELSE errorsNew(errno)

\* resolver of kill: nil when the signal went out or the process is gone.
killResolver(errno) ==
    IF errno = Delivered THEN NoErr
    ELSE IF stringsContains(errno, <<"no", "such", "process">>) THEN NoErr
    ELSE errorsNew(errno)

\* kill: the resolver's error under the tag chrome.kill.
killResult(errno) == wrapResolver("chrome.kill", killResolver(errno))

\* kill(2): a negative argument addresses every member of the group of that
\* id, a positive one the single process of that id.
addressed(p, target) ==
    IF target < 0 THEN p.pgid = -target ELSE p.pid = target

signalled(p, target, errno) ==
    IF addressed(p, target) /\ errno = Delivered
        THEN [p EXCEPT !.state = "killed"]
    ELSE IF addressed(p, target) /\ errno = ESRCH
        THEN [p EXCEPT !.state = "gone"]
    ELSE p

\* Processes after kill(2) with argument target answered errno: a delivered
\* signal reaches every member of the group, "no such process" means there is
\* none left, any other answer leaves the processes as they were.
afterSignal(ps, target, errno) ==
    [k \in DOMAIN ps |->
        [signalled(ps[k], target, errno) EXCEPT !.children =
            [c \in DOMAIN ps[k].children |->
                signalled(ps[k].children[c], target, errno)]]]

----------------------------------------------------------------------------
(* IsViable *)

maxViabilityTests == 20

\* The probe asks another port than the one the browser is given.
endpoint_otherPort == [scheme |-> "http", host |-> "localhost", port |-> "9223"]

endpoint == [scheme |-> "http", host |-> "localhost", port |-> "9222"]

\* Answers of the devtools endpoint to the version query.
ConnRefused == <<"connection", "refused">>
BadAnswer == <<"unexpected", "EOF">>
Diagnostics == {ConnRefused, BadAnswer}
Answers == {<<"ok">>} \cup Diagnostics

\* context.WithCancel(context.Background()): no deadline, not yet cancelled.
contextWithCancel == [deadline |-> FALSE, cancelled |-> FALSE]

ctxDone(ctx) == ctx.deadline \/ ctx.cancelled

\* A failed query loses its error.
viableResult_noErr(answer) ==
    [result |-> answer \notin Diagnostics, err |-> NoErr]

\* viable: (bool, error) for an answer of the endpoint.
viableResult(answer) ==
    IF answer \in Diagnostics
    THEN [result |-> FALSE, err |-> errorsNew(answer)]
    ELSE [result |-> TRUE, err |-> NoErr]

\* The loop test is off by one.
loopCond_offByOne(n, r) == n <= maxViabilityTests /\ ~r

\* The loop goes on after a viable answer.
loopCond_noResult(n, r) == n < maxViabilityTests

\* for i := 0; i < maxViabilityTests && !result; i++
loopCond(n, r) == n < maxViabilityTests /\ ~r

\* The result of IsViable is not looked at.
mustRestart_always(isViable) == TRUE

\* A process that is not viable is accepted.
mustRestart_never(isViable) == FALSE

\* if !isViable { return restart(...) }
mustRestart(isViable) == ~isViable

----------------------------------------------------------------------------
(* The call of Start *)

NoProbe == [n |-> 0, anyOk |-> FALSE, last |-> <<>>, hung |-> FALSE,
            warm |-> 0, port |-> ""]

Init ==
    /\ ignoreCertificateErrors \in BOOLEAN
    /\ pc = "cmd"
    /\ depth = 0
    /\ proc = 0
    /\ cmdv = NoCmd
    /\ i = 0
    /\ result = FALSE
    /\ err = NoErr
    /\ retErr = NoErr
    /\ procs = <<>>
    /\ kills = <<>>
    /\ probeLog = <<>>
    /\ launchFail = "none"

\* cmd, err := cmd(logger, ignoreCertificateErrors), in Start and in restart.
BuildCmd ==
    /\ pc = "cmd"
    /\ \E ce \in {NoErr, CommandErr} :
         LET r == cmdResult(ignoreCertificateErrors, ce) IN
         /\ launchFail' = IF ce # NoErr THEN "cmd" ELSE launchFail
         /\ cmdv' = r.cmd
         /\ IF launchReturns(r.err)
            THEN pc' = "return" /\ retErr' = r.err
            ELSE pc' = "start" /\ retErr' = retErr
    /\ UNCHANGED <<ignoreCertificateErrors, depth, proc, i, result, err,
                   procs, kills, probeLog>>

\* cmd.Start(), then the entry of IsViable (result := false, err := nil).
StartCmd ==
    /\ pc = "start"
    /\ \E se \in {NoErr, SpawnErr} :
         /\ launchFail' = IF se # NoErr THEN "start" ELSE launchFail
         /\ procs' = IF se = NoErr
                     THEN Append(procs, spawn(cmdv, Len(procs) + 1))
                     ELSE procs
         /\ IF launchReturns(se)
            THEN /\ pc' = "return"
                 /\ retErr' = se
                 /\ UNCHANGED <<i, result, err, probeLog>>
            ELSE /\ pc' = "loop"
                 /\ retErr' = retErr
                 /\ i' = 0
                 /\ result' = FALSE
                 /\ err' = NoErr
                 /\ probeLog' = Append(probeLog, NoProbe)
    /\ UNCHANGED <<ignoreCertificateErrors, depth, proc, cmdv, kills>>

\* The loop test of IsViable: another round, or return result, err.
LoopTest ==
    /\ pc = "loop"
    /\ pc' = IF loopCond(i, result) THEN "warmup" ELSE "decide"
    /\ UNCHANGED <<ignoreCertificateErrors, depth, proc, cmdv, i, result, err,
                   retErr, procs, kills, probeLog, launchFail>>

\* The probe is made without the pause.
Warmup_noPause ==
    /\ pc = "warmup"
    /\ pc' = "viable"
    /\ UNCHANGED <<ignoreCertificateErrors, depth, proc, cmdv, i, result, err,
                   retErr, procs, kills, probeLog, launchFail>>

\* warmup: time.Sleep of half a second.
Warmup ==
    /\ pc = "warmup"
    /\ pc' = "viable"
    /\ probeLog' = [probeLog EXCEPT ![Len(probeLog)].warm = @ + 1]
    /\ UNCHANGED <<ignoreCertificateErrors, depth, proc, cmdv, i, result, err,
                   retErr, procs, kills, launchFail>>

\* result, err = viable(); i++ : the endpoint answers the version query.
Viable ==
    /\ pc = "viable"
    /\ \E answer \in Answers :
         LET r == viableResult(answer)
             l == probeLog[Len(probeLog)]
         IN
         /\ result' = r.result
         /\ err' = r.err
         /\ probeLog' = [probeLog EXCEPT ![Len(probeLog)] =
                            [n |-> l.n + 1,
                             anyOk |-> l.anyOk \/ answer = <<"ok">>,
                             last |-> answer,
                             hung |-> FALSE,
                             warm |-> l.warm,
                             port |-> endpoint.port]]
    /\ i' = i + 1
    /\ pc' = "loop"
    /\ UNCHANGED <<ignoreCertificateErrors, depth, proc, cmdv, retErr, procs,
                   kills, launchFail>>

\* The endpoint accepts the version query and never answers: Version(ctx)
\* returns only once ctx is done, and nothing but the deferred cancel of
\* viable itself, which runs when viable returns, ends this context.
ViableHung ==
    /\ pc = "viable"
    /\ LET ctx == contextWithCancel
           l == probeLog[Len(probeLog)]
       IN
       /\ probeLog' = [probeLog EXCEPT ![Len(probeLog)] =
                          [l EXCEPT !.n = l.n + 1, !.last = <<"hung">>,
                                    !.hung = TRUE,
                                    !.port = endpoint.port]]
       /\ IF ctxDone(ctx)
          THEN /\ pc' = "loop"
               /\ result' = FALSE
               /\ err' = errorsNew(<<"context", "canceled">>)
               /\ i' = i + 1
          ELSE /\ pc' = "blocked"
               /\ UNCHANGED <<i, result, err>>
    /\ UNCHANGED <<ignoreCertificateErrors, depth, proc, cmdv, retErr, procs,
                   kills, launchFail>>

\* restart gives up with an error instead of calling itself a second time.
CallRestart_limited ==
    /\ pc = "decide"
    /\ mustRestart(result)
    /\ IF depth < 1
       THEN /\ depth' = depth + 1
            /\ proc' = cmdProcess(procs)
            /\ pc' = "kill"
            /\ UNCHANGED retErr
       ELSE /\ pc' = "return"
            /\ retErr' = errorsNew(<<"supervision", "exhausted">>)
            /\ UNCHANGED <<depth, proc>>
    /\ UNCHANGED <<ignoreCertificateErrors, cmdv, i, result, err,
                   procs, kills, probeLog, launchFail>>

\* isViable, _ := IsViable(logger); if !isViable { return restart(logger,
\* cmd.Process, ...) }: the call of restart, a new frame.
CallRestart ==
    /\ pc = "decide"
    /\ mustRestart(result)
    /\ depth < MaxDepth
    /\ depth' = depth + 1
    /\ proc' = cmdProcess(procs)
    /\ ignoreCertificateErrors' = restartArg(ignoreCertificateErrors)
    /\ pc' = "kill"
    /\ UNCHANGED <<cmdv, i, result, err, retErr,
                   procs, kills, probeLog, launchFail>>

\* ... otherwise return nil.
ReturnViable ==
    /\ pc = "decide"
    /\ ~mustRestart(result)
    /\ retErr' = NoErr
    /\ pc' = "return"
    /\ UNCHANGED <<ignoreCertificateErrors, depth, proc, cmdv, i, result, err,
                   procs, kills, probeLog, launchFail>>

\* kill(logger, proc) at the head of restart.
Kill ==
    /\ pc = "kill"
    /\ \E errno \in Errnos :
         LET e == killResult(errno) IN
         /\ kills' = Append(kills, [target |-> killTarget(proc), errno |-> errno])
         /\ procs' = afterSignal(procs, killTarget(proc), errno)
         /\ IF e # NoErr
            THEN pc' = "return" /\ retErr' = e
            ELSE pc' = "cmd" /\ retErr' = retErr
    /\ UNCHANGED <<ignoreCertificateErrors, depth, proc, cmdv, i, result, err,
                   probeLog, launchFail>>

\* A frame of restart returns to its caller.
ReturnRestart ==
    /\ pc = "return"
    /\ depth > 0
    /\ depth' = depth - 1
    /\ retErr' = wrapResolver("chrome.restart", retErr)
    /\ UNCHANGED <<ignoreCertificateErrors, pc, proc, cmdv, i, result, err,
                   procs, kills, probeLog, launchFail>>

\* Start returns to its caller.
ReturnStart ==
    /\ pc = "return"
    /\ depth = 0
    /\ retErr' = wrapResolver("chrome.Start", retErr)
    /\ pc' = "done"
    /\ UNCHANGED <<ignoreCertificateErrors, depth, proc, cmdv, i, result, err,
                   procs, kills, probeLog, launchFail>>

Next ==
    \/ BuildCmd
    \/ StartCmd
    \/ LoopTest
    \/ Warmup
    \/ Viable
    \/ ViableHung
    \/ CallRestart
    \/ ReturnViable
    \/ Kill
    \/ ReturnRestart
    \/ ReturnStart

Spec == Init /\ [][Next]_vars

\* The call is scheduled as long as it has a step to take.
FairSpec == Spec /\ WF_vars(Next)

----------------------------------------------------------------------------
(* Properties *)

Last(s) == s[Len(s)]

InProbeLoop == pc \in {"loop", "warmup", "viable", "blocked"}

\* The k-th call of IsViable has returned.
Returned(k) == k < Len(probeLog) \/ (k = Len(probeLog) /\ ~InProbeLoop)

Running == {k \in DOMAIN procs : procs[k].state = "running"}

KillsOf(pid) == {k \in DOMAIN kills : kills[k].target = -pid}

\* C1: one call of IsViable makes at least 1 and at most 20 probe attempts
\* before it returns, whatever the endpoint answers.
C1_BoundedAttempts ==
    \A k \in DOMAIN probeLog :
        /\ probeLog[k].n <= 20
        /\ Returned(k) => probeLog[k].n >= 1

C1_Witness ==
    /\ pc = "decide"
    /\ Last(probeLog).n = 20
    /\ ~Last(probeLog).anyOk

\* C2: IsViable stops at the first viable attempt and returns the result of
\* its last attempt: (true, nil) exactly when an attempt among the first 20
\* succeeded, whatever failed before it, and (false, error of the 20th
\* attempt) exactly when all 20 failed; never (false, nil) nor (true, error).
C2_LastAttemptReturned ==
    /\ \A k \in DOMAIN probeLog :
          probeLog[k].anyOk => probeLog[k].last = <<"ok">>
    /\ pc = "decide" =>
          LET l == Last(probeLog) IN
          /\ result <=> l.anyOk
          /\ result => err = NoErr /\ l.n \in 1..20
          /\ ~result => /\ l.n = 20
                        /\ l.last \in Diagnostics
                        /\ err = errorsNew(l.last)
                        /\ err # NoErr

C2_Witness ==
    /\ pc = "decide"
    /\ result
    /\ err = NoErr
    /\ Last(probeLog).n = 20

\* C3: a stale process is terminated (signal delivered, or found gone) before
\* its replacement is launched, so at most one launched process is not yet
\* terminated at any time.
C3_KillBeforeRelaunch ==
    /\ [](Cardinality(Running) <= 1)
    /\ [][Len(procs') > Len(procs) => Running = {}]_vars

C3_Witness ==
    /\ Len(procs) = 2
    /\ procs[1].state = "killed"
    /\ procs[2].state = "running"

\* The first process failed all 20 probes and the second answered its first.
RestartScenario ==
    /\ Len(probeLog) >= 2
    /\ probeLog[1].n = 20
    /\ ~probeLog[1].anyOk
    /\ probeLog[2].n = 1
    /\ probeLog[2].anyOk

\* C4: when the first process never becomes viable and the second is viable
\* on its first probe, Start kills the first process exactly once, launches
\* exactly two processes, never kills the second, makes no further probe and
\* returns success.
C4_RestartOnFailure ==
    /\ [](RestartScenario =>
            /\ Len(procs) = 2
            /\ Len(kills) = 1
            /\ Cardinality(KillsOf(procs[1].pid)) = 1
            /\ KillsOf(procs[2].pid) = {}
            /\ procs[1].state # "running"
            /\ procs[2].state = "running"
            /\ Len(probeLog) = 2
            /\ pc \in {"loop", "decide", "return", "done"}
            /\ retErr = NoErr)
    /\ (RestartScenario ~> (pc = "done" /\ retErr = NoErr))

C4_Witness ==
    /\ RestartScenario
    /\ pc = "done"
    /\ retErr = NoErr

\* The maximum restart count of the exhaustion scenario.
RestartLimit == MaxDepth - 1

\* No process ever becomes viable, every launch and every kill succeeds.
PersistentFailure ==
    /\ launchFail = "none"
    /\ \A k \in DOMAIN kills : kills[k].errno \in {Delivered, ESRCH}
    /\ \A k \in DOMAIN probeLog : ~probeLog[k].anyOk /\ ~probeLog[k].hung

\* C5: under persistent probe failure Start returns an exhaustion error after
\* exactly RestartLimit restart cycles of 20 probes each, having issued
\* RestartLimit kills.
C5_Exhaustion ==
    ( /\ PersistentFailure
      /\ Len(probeLog) >= RestartLimit + 1
      /\ probeLog[RestartLimit + 1].n = 20
      /\ Returned(RestartLimit + 1) )
    => /\ pc \in {"return", "done"}
       /\ retErr # NoErr
       /\ Len(kills) = RestartLimit
       /\ Len(procs) = RestartLimit + 1

LaunchCause == IF launchFail = "cmd" THEN CommandErr.msg ELSE SpawnErr.msg

\* C6: when building or starting the command fails, on the first launch or on
\* a relaunch, Start returns that error at once: no probe, no launch and no
\* kill follows the failed launch.
C6_LaunchFailureReturns ==
    /\ [](launchFail # "none" =>
            /\ pc \in {"return", "done"}
            /\ retErr # NoErr
            /\ retErr.msg = LaunchCause)
    /\ [][launchFail # "none" =>
            /\ UNCHANGED <<procs, kills, probeLog, launchFail>>
            /\ retErr'.msg = retErr.msg]_vars

C6_Witness ==
    /\ pc = "done"
    /\ launchFail = "start"
    /\ Len(procs) = 1
    /\ Len(kills) = 1

KillFailed == kills # <<>> /\ Last(kills).errno \notin {Delivered, ESRCH}

\* C7: when the kill signal cannot be delivered for a reason other than "no
\* such process", the error reaches the caller of Start, and neither a launch
\* nor a probe follows the failed kill.
C7_KillFailurePropagates ==
    /\ [](KillFailed =>
            /\ pc \in {"return", "done"}
            /\ retErr # NoErr
            /\ retErr.msg = Last(kills).errno
            /\ Len(procs) = Len(kills))
    /\ [][KillFailed => UNCHANGED <<procs, kills, probeLog>>]_vars

C7_Witness ==
    /\ pc = "done"
    /\ KillFailed
    /\ retErr # NoErr
    /\ Len(kills) = 2

\* C8: a kill answered "no such process" is a success: restart goes on to
\* build and start the replacement, in the same frame and with no error, as
\* it does after a delivered signal.
C8_IdempotentKill ==
    [][(pc = "kill" /\ Len(kills') > Len(kills)
          /\ Last(kills').errno \in {ESRCH, Delivered})
        => /\ pc' = "cmd"
           /\ retErr' = NoErr
           /\ Running' = {}
           /\ UNCHANGED <<depth, proc, probeLog, launchFail>>]_vars

C8_Witness ==
    /\ Len(kills) = 1
    /\ kills[1].errno = ESRCH
    /\ Len(procs) = 2
    /\ procs[1].state = "gone"
    /\ pc = "done"
    /\ retErr = NoErr

\* C9: when the last probe attempt failed with a diagnostic and Start returns
\* an error, that diagnostic is in the error Start returns.
C9_DiagnosticSurfaced ==
    ( /\ pc = "done"
      /\ retErr # NoErr
      /\ probeLog # <<>>
      /\ Last(probeLog).last \in Diagnostics )
    => retErr.msg = Last(probeLog).last

\* C10: every probe attempt returns, also when the endpoint accepts the
\* query and never answers.
C10_ProbeReturns == (pc = "viable") ~> (pc = "loop")

\* The last probe answered, it was made against the process launched last,
\* and that process has never been the target of a kill.
LastProbeViable ==
    /\ probeLog # <<>>
    /\ Len(probeLog) = Len(procs)
    /\ Last(probeLog).n >= 1
    /\ Last(probeLog).last = <<"ok">>
    /\ Last(procs).state = "running"
    /\ KillsOf(Last(procs).pid) = {}

\* C11: Start returns success only if the most recent probe reported viable,
\* was made after the most recent launch, and the process launched last has
\* not been sent a kill signal; every other return of Start is an error.
C11_SuccessOnlyIfViable ==
    pc = "done" => (retErr = NoErr <=> LastProbeViable)

C11_Witness ==
    /\ pc = "done"
    /\ retErr = NoErr
    /\ Len(procs) = 2
    /\ Len(kills) = 1

CertFlag == Flag("--ignore-certificate-errors", "")

HasFlag(args, f) == \E k \in DOMAIN args : args[k] = f

\* C12: every launch of one call of Start, the first and every relaunch,
\* carries --ignore-certificate-errors if and only if the caller asked for
\* it, and the setting never changes between cycles.
C12_CertificateFlag ==
    /\ [](\A k \in DOMAIN procs :
             HasFlag(procs[k].args, CertFlag) <=> ignoreCertificateErrors)
    /\ [][ignoreCertificateErrors' = ignoreCertificateErrors]_vars

C12_Witness ==
    /\ ignoreCertificateErrors
    /\ Len(procs) = 3
    /\ HasFlag(procs[1].args, CertFlag)
    /\ HasFlag(procs[3].args, CertFlag)

\* Leader and helpers of the group of id g.
Group(g) ==
    {procs[k] : k \in {x \in DOMAIN procs : procs[x].pgid = g}}
    \cup UNION { {procs[k].children[c] : c \in
                     {y \in DOMAIN procs[k].children :
                         procs[k].children[y].pgid = g}} :
                 k \in DOMAIN procs }
    
States(ps) == {p.state : p \in ps}

\* C13: every supervised process leads a process group of its own, a kill
\* addresses the negated group id of a launched process, and after a
\* delivered signal every member of that group, helpers included, has
\* received it.
C13_GroupSignaling ==
    /\ \A k \in DOMAIN procs :
          /\ procs[k].pgid = procs[k].pid
          /\ \A c \in DOMAIN procs[k].children :
                procs[k].children[c].pgid = procs[k].pid
    /\ \A j \in DOMAIN kills :
          /\ kills[j].target < 0
          /\ \E k \in DOMAIN procs : procs[k].pid = -kills[j].target
          /\ kills[j].errno = Delivered =>
                States(Group(-kills[j].target)) = {"killed"}

C13_Witness ==
    /\ Len(kills) = 1
    /\ kills[1].errno = Delivered
    /\ procs[1].state = "killed"
    /\ Len(procs[1].children) >= 1
    /\ procs[1].children[1].state = "killed"
    /\ Cardinality(Group(1)) >= 2

\* The value of the --remote-debugging-port flag of a command line.
LaunchPort(args) ==
    LET K == {k \in DOMAIN args : args[k].name = "--remote-debugging-port"}
    IN IF Cardinality(K) = 1 THEN args[CHOOSE k \in K : TRUE].val ELSE ""

\* C14: with or without certificate tolerance and in every launch cycle, the
\* port of the URL the probe asks is the port given to the browser in its
\* launch flag, 9222.
C14_PortInvariance ==
    \A k \in DOMAIN probeLog :
        probeLog[k].n >= 1 =>
            /\ k \in DOMAIN procs
            /\ probeLog[k].port = LaunchPort(procs[k].args)
            /\ probeLog[k].port = "9222"

C14_Witness ==
    /\ ignoreCertificateErrors
    /\ Len(probeLog) = 2
    /\ probeLog[2].n >= 1
    /\ probeLog[2].port = "9222"
    /\ LaunchPort(procs[2].args) = "9222"

\* A step that makes a probe attempt in the current call of IsViable.
ProbeStep ==
    /\ probeLog # <<>>
    /\ Len(probeLog') = Len(probeLog)
    /\ Last(probeLog').n = Last(probeLog).n + 1

\* C15: every probe attempt, the first after a launch included, comes right
\* after exactly one warmup pause: pauses and probes alternate, starting
\* with a pause.
C15_WarmupBeforeProbe ==
    /\ [](\A k \in DOMAIN probeLog :
             probeLog[k].warm \in {probeLog[k].n, probeLog[k].n + 1})
    /\ [][ProbeStep => /\ Last(probeLog).warm = Last(probeLog).n + 1
                       /\ Last(probeLog').warm = Last(probeLog).warm]_vars
    /\ [][Len(procs') > Len(procs) =>
             Last(probeLog').warm = 0 /\ Last(probeLog').n = 0]_vars

C15_Witness ==
    /\ pc = "loop"
    /\ Len(probeLog) = 2
    /\ Last(probeLog).n = 3
    /\ Last(probeLog).warm = 3

\* The k-th call of IsViable made 20 attempts and all of them failed.
Failed20(k) ==
    /\ probeLog[k].n = 20
    /\ ~probeLog[k].anyOk
    /\ ~probeLog[k].hung

\* C16: a launched process is killed if and only if the 20 probe attempts
\* made after its launch all failed; the count starts at zero with every
\* launch, and a failure followed by a viable answer within the 20 attempts
\* leads to no kill and no relaunch.
C16_KillIffTwentyFailures ==
    /\ [](\A k \in DOMAIN procs :
            /\ KillsOf(procs[k].pid) # {} =>
                  k \in DOMAIN probeLog /\ Failed20(k)
            /\ (k \in DOMAIN probeLog /\ probeLog[k].anyOk) =>
                  KillsOf(procs[k].pid) = {} /\ Len(procs) = k
            /\ ( /\ k \in DOMAIN probeLog
                 /\ Failed20(k)
                 /\ Returned(k)
                 /\ ~(k = Len(procs) /\ pc \in {"decide", "kill"}) )
               => KillsOf(procs[k].pid) # {})
    /\ [][Len(procs') > Len(procs) => i' = 0 /\ Last(probeLog').n = 0]_vars

C16_Witness ==
    /\ pc = "done"
    /\ Len(procs) = 2
    /\ KillsOf(procs[1].pid) # {}
    /\ probeLog[2].n = 3
    /\ probeLog[2].anyOk
    /\ KillsOf(procs[2].pid) = {}

\* C17: restart has no depth limit: while every launch and kill succeeds and
\* no probe answers, Start does not return, and launches, kills and the depth
\* of restart grow up to any bound the model follows them to.
C17_NoDepthLimit ==
    /\ [](PersistentFailure => pc \notin {"return", "done"})
    /\ ([]PersistentFailure =>
          <>( /\ depth = MaxDepth
              /\ Len(procs) = MaxDepth + 1
              /\ Len(kills) = MaxDepth ))

C17_Witness ==
    /\ PersistentFailure
    /\ depth = MaxDepth
    /\ Len(procs) = MaxDepth + 1
    /\ Len(kills) = MaxDepth
    /\ pc = "decide"
    /\ Failed20(MaxDepth + 1)

\* C18: no launched process is the target of more than one kill, a kill
\* targets the process launched last, the kills issued number as many as the
\* launches or one less, and exactly one less when Start returns success.
C18_KillsAndLaunches ==
    /\ [](/\ \A k \in DOMAIN procs : Cardinality(KillsOf(procs[k].pid)) <= 1
          /\ \A j \in DOMAIN kills :
                j \in DOMAIN procs /\ kills[j].target = -procs[j].pid
          /\ Len(kills) \in {Len(procs), Len(procs) - 1}
          /\ (pc = "done" /\ retErr = NoErr) => Len(kills) = Len(procs) - 1)
    /\ [][Len(kills') > Len(kills) =>
             /\ procs # <<>>
             /\ Last(kills').target = -Last(procs).pid
             /\ Len(kills') = Len(procs)]_vars

C18_Witness ==
    /\ pc = "done"
    /\ retErr = NoErr
    /\ Len(procs) = 3
    /\ Len(kills) = 2

\* Every process launched so far, with its helpers.
Everyone == UNION {Group(procs[k].pgid) : k \in DOMAIN procs}

\* C19: when Start fails because the command could not be built or spawned,
\* every process launched earlier in the call has been terminated (signal
\* delivered to its group, or group already gone): none is left running.
C19_NoOrphanOnLaunchFailure ==
    launchFail # "none" =>
        /\ "running" \notin States(Everyone)
        /\ \A k \in DOMAIN procs : KillsOf(procs[k].pid) # {}
        /\ pc = "done" => retErr # NoErr

C19_Witness ==
    /\ pc = "done"
    /\ launchFail = "cmd"
    /\ retErr # NoErr
    /\ Len(procs) = 2
    /\ Cardinality(Everyone) >= 4

====
